---- MODULE Spec2Model ----
(***************************************************************************)
(* A model of simple_di: the Provider override contract, the Static,       *)
(* Callable and MemoizedCallable providers, the Configuration provider     *)
(* with its path providers, and the injection wrapper.                     *)
(***************************************************************************)
EXTENDS Integers, Sequences, FiniteSets, TLC

VARIABLES
    objs,       \* the names of the objects that have been constructed
    value,      \* Static._value, per Static provider
    override,   \* Provider._override, per provider
    cache,      \* MemoizedCallable._cache, per MemoizedCallable
    calls,      \* how many times each wrapped (counting) function has run
    fargs,      \* the arguments each wrapped function received in the last operation
                \* (NoArgs when it did not run in it)
    got,        \* the providers whose Provider.get ran in the last operation, in order
    data,       \* Configuration._data
    fallback,   \* Configuration.fallback
    heap,       \* the dict objects, by address: heap[i][key] is a value or Absent
    wrapper,    \* the injection wrapper: how it was decorated, and its respect_none
    cargs,      \* the arguments the wrapper was called with, when the last operation
                \* was a call of it: [args, kwargs]
    last,       \* the operation performed last: [op, p, path, v]
    setv,       \* the value passed by the set() that last immediately followed on
                \* the same provider (the sentinel when there was none)
    prev,       \* the operation before last, when on the same provider: "none", or
                \* its name, followed by "!" when it raised; "set;reset" is a reset()
                \* that followed a set(), "get!;set" a set() that followed a failed get()
    ret,        \* what the last operation returned or raised: [exc, val]
    threads     \* per thread of control calling get() of the MemoizedCallable
                \* concurrently: where it is in get(), its local `value`, what its
                \* last get() returned, how many times it ran the function

vars ==
    <<objs, value, override, cache, calls, fargs, got, data, fallback, heap, wrapper, cargs,
      last, setv, prev, ret, threads>>

\* ------------------------------------------------------------------ bounds

\* The wrapped functions run at most this many times in a behaviour.
MaxCalls == 2
\* The threads of control that call get() concurrently.
MaxThreads == 2

\* ------------------------------------------------------------------ values

\* Every Python value of the model is a record [k, v]: k is its type and v
\* its payload (an integer, a provider's index, a heap address).
Sentinel == [k |-> "sentinel", v |-> 0]
NoneV == [k |-> "none", v |-> 0]
IntV(n) == [k |-> "int", v |-> n]
StrV(n) == [k |-> "str", v |-> n]

\* isinstance(x, _SentinelClass)
IsSentinel(x) == x.k = "sentinel"

\* The provider objects, by name, and their classes.
ProvNames == <<"s", "c", "m", "cfg">>
ProvV(p) == [k |-> "prov", v |-> CHOOSE i \in DOMAIN ProvNames : ProvNames[i] = p]
ClassOf ==
    [s |-> "Static", c |-> "Callable", m |-> "MemoizedCallable",
     cfg |-> "Configuration"]

\* isinstance(x, Provider)
IsProvider(x) == x.k = "prov"

\* The n-th result of the counting function fn: it returns its own run count.
Res(fn, n) == [k |-> "res_" \o fn, v |-> n]

\* An operation's outcome: a returned value, or a raised exception.
Ok(x) == [exc |-> "", val |-> x]
Raise(e) == [exc |-> e, val |-> Sentinel]

NoKwargs == << >>
NoArgs == [args |-> << >>, kwargs |-> NoKwargs]

\* ------------------------------------------------ Callable construction

\* c = Callable(f, s, 3); m = MemoizedCallable(g, 4, k=c)
Func == [c |-> "f", m |-> "g"]
Args == [c |-> <<ProvV("s"), IntV(3)>>, m |-> <<IntV(4)>>]
Kwargs == [c |-> NoKwargs, m |-> <<[name |-> "k", val |-> ProvV("c")]>>]

\* The part of the state that get() reads and writes, at the start of an operation.
NoRuns == [fn \in DOMAIN fargs |-> NoArgs]
State ==
    [override |-> override, cache |-> cache, calls |-> calls, fargs |-> NoRuns, got |-> << >>]

\* --------------------------------------------------------- Provider.get

\* Calling the wrapped counting function: it counts the run, and returns the count.
CallFunc(fn, a, kw, st) ==
    LET n == st.calls[fn] + 1
    IN [st |-> [st EXCEPT !.calls[fn] = n, !.fargs[fn] = [args |-> a, kwargs |-> kw]],
        ret |-> Ok(Res(fn, n))]

\* Static._provide
StaticProvide(p, st) == [st |-> st, ret |-> Ok(value[p])]

\* A truthiness test of the override in place of the sentinel test.
HasOverrideTruthy(p, st) == st.override[p] \notin {Sentinel, NoneV, IntV(0)}

\* if not isinstance(self._override, _SentinelClass): return self._override
HasOverride(p, st) == ~IsSentinel(st.override[p])

RECURSIVE ProviderGet(_, _)
RECURSIVE InjectArgsFrom(_, _, _, _)
RECURSIVE InjectKwargsFrom(_, _, _, _)
RECURSIVE Provide(_, _)

\* An _inject_args that calls get() again on a get() result that is a Provider.
RECURSIVE InjectArgsFromTwice(_, _, _, _)
InjectArgsFromTwice(a, i, st, acc) ==
    IF i > Len(a) THEN [st |-> st, exc |-> "", vals |-> acc]
    ELSE IF IsProvider(a[i])
         THEN LET r1 == ProviderGet(ProvNames[a[i].v], st)
                  r == IF r1.ret.exc = "" /\ IsProvider(r1.ret.val)
                       THEN ProviderGet(ProvNames[r1.ret.val.v], r1.st)
                       ELSE r1
              IN IF r.ret.exc # ""
                 THEN [st |-> r.st, exc |-> r.ret.exc, vals |-> acc]
                 ELSE InjectArgsFromTwice(a, i + 1, r.st, Append(acc, r.ret.val))
         ELSE InjectArgsFromTwice(a, i + 1, st, Append(acc, a[i]))

\* _inject_args, element i onwards: a Provider is replaced by its get(), in order;
\* an exception of a get() ends the evaluation.
InjectArgsFrom(a, i, st, acc) ==
    IF i > Len(a) THEN [st |-> st, exc |-> "", vals |-> acc]
    ELSE IF IsProvider(a[i])
         THEN LET r == ProviderGet(ProvNames[a[i].v], st)
              IN IF r.ret.exc # ""
                 THEN [st |-> r.st, exc |-> r.ret.exc, vals |-> acc]
                 ELSE InjectArgsFrom(a, i + 1, r.st, Append(acc, r.ret.val))
         ELSE InjectArgsFrom(a, i + 1, st, Append(acc, a[i]))

\* _inject_kwargs, item i onwards (a dict keeps its insertion order).
InjectKwargsFrom(kw, i, st, acc) ==
    IF i > Len(kw) THEN [st |-> st, exc |-> "", vals |-> acc]
    ELSE IF IsProvider(kw[i].val)
         THEN LET r == ProviderGet(ProvNames[kw[i].val.v], st)
              IN IF r.ret.exc # ""
                 THEN [st |-> r.st, exc |-> r.ret.exc, vals |-> acc]
                 ELSE InjectKwargsFrom(kw, i + 1, r.st,
                          Append(acc, [name |-> kw[i].name, val |-> r.ret.val]))
         ELSE InjectKwargsFrom(kw, i + 1, st, Append(acc, kw[i]))

InjectArgs(a, st) == InjectArgsFrom(a, 1, st, << >>)
InjectKwargs(kw, st) == InjectKwargsFrom(kw, 1, st, << >>)

\* self._func(*_inject_args(self._args), **_inject_kwargs(self._kwargs))
CallInjected(p, st) ==
    LET ra == InjectArgs(Args[p], st)
    IN IF ra.exc # "" THEN [st |-> ra.st, ret |-> Raise(ra.exc)]
       ELSE LET rk == InjectKwargs(Kwargs[p], ra.st)
            IN IF rk.exc # "" THEN [st |-> rk.st, ret |-> Raise(rk.exc)]
               ELSE CallFunc(Func[p], ra.vals, rk.vals, rk.st)

\* A _provide that keeps to the first run of the function.
CallableProvideOnce(p, st) ==
    IF st.calls[Func[p]] >= 1
    THEN [st |-> st, ret |-> Ok(Res(Func[p], st.calls[Func[p]]))]
    ELSE CallInjected(p, st)

\* Callable._provide
CallableProvide(p, st) == CallInjected(p, st)

\* A _provide that runs the function whether or not a result is cached.
MemoizedProvideAlways(p, st) ==
    LET r == CallInjected(p, st)
    IN IF r.ret.exc # "" THEN r
       ELSE [st |-> [r.st EXCEPT !.cache[p] = r.ret.val], ret |-> r.ret]

\* MemoizedCallable._provide
MemoizedProvide(p, st) ==
    IF ~IsSentinel(st.cache[p]) THEN [st |-> st, ret |-> Ok(st.cache[p])]
    ELSE LET r == CallInjected(p, st)
         IN IF r.ret.exc # "" THEN r
            ELSE [st |-> [r.st EXCEPT !.cache[p] = r.ret.val], ret |-> r.ret]

\* self._provide(), by the class of self
Provide(p, st) ==
    CASE ClassOf[p] = "Static" -> StaticProvide(p, st)
      [] ClassOf[p] = "Callable" -> CallableProvide(p, st)
      [] ClassOf[p] = "MemoizedCallable" -> MemoizedProvide(p, st)
      [] OTHER -> [st |-> st, ret |-> Raise("NotImplementedError")]

\* A get() that produces first and looks at the override after.
ProviderGetEager(p, st) ==
    LET st1 == [st EXCEPT !.got = Append(@, p)]
        r == Provide(p, st1)
    IN IF HasOverride(p, st1) THEN [st |-> r.st, ret |-> Ok(st1.override[p])]
       ELSE r

\* Provider.get
ProviderGet(p, st) ==
    LET st1 == [st EXCEPT !.got = Append(@, p)]
    IN IF HasOverride(p, st1) THEN [st |-> st1, ret |-> Ok(st1.override[p])]
       ELSE Provide(p, st1)

\* -------------------------------------------------------- Configuration

\* The keys of the configuration tree, and the paths of the path providers.
Keys == {"a", "b"}
MaxPathLen == 2
\* At most this many dict objects exist at a time.
MaxObj == 3

\* A dict object maps every key to a value, or to Absent when it lacks the key.
\* The heap holds the dict objects by address; an address no dict lives at is free.
Absent == [k |-> "absent", v |-> 0]
Ref(i) == [k |-> "dict", v |-> i]
IsDict(x) == x.k = "dict"
EmptyDict == [key \in Keys |-> Absent]
FreeSlot == [key \in Keys |-> [k |-> "free", v |-> 0]]
EmptyHeap == [i \in 1..MaxObj |-> FreeSlot]
FreeAddrs(h) == {i \in DOMAIN h : h[i] = FreeSlot}
NthFree(h, n) == CHOOSE i \in FreeAddrs(h) : Cardinality({j \in FreeAddrs(h) : j <= i}) = n

\* Configuration.__getattr__ and _ConfigurationItem.__getattr__: a path provider
\* holds the Configuration and a path, one segment longer per attribute access,
\* and nothing else that its get() or set() reads, so it is named by its path.
\* The paths in use: config.a. ... .a.<key>, every intermediate section named a.
Paths ==
    {path \in UNION {[1..n -> Keys] : n \in 1..MaxPathLen} :
        \A i \in 1..(Len(path) - 1) : path[i] = "a"}

\* x is y: a dict is itself only; None and the small integers are singletons.
Is(x, y) == x = y

\* A get that looks at the fallback before the data.
ConfigurationGetFallbackFirst(d, fb) ==
    IF ~IsSentinel(fb) THEN Ok(fb)
    ELSE IF IsSentinel(d) THEN Raise("ValueError") ELSE Ok(d)

\* Configuration.get
ConfigurationGet(d, fb) ==
    IF IsSentinel(d)
    THEN IF IsSentinel(fb) THEN Raise("ValueError") ELSE Ok(fb)
    ELSE Ok(d)

\* A set that stores whatever it is given, the sentinel included.
ConfigurationSetAny(d, v) == v

\* Configuration.set: the new _data
ConfigurationSet(d, v) == IF IsSentinel(v) THEN d ELSE v

\* A walk that stops after the first segment of the path.
RECURSIVE WalkFirst(_, _, _, _)
WalkFirst(cursor, path, n, h) ==
    IF n > Len(path) \/ n > 1 THEN Ok(cursor)
    ELSE IF ~IsDict(cursor) THEN Raise("TypeError")
    ELSE IF h[cursor.v][path[n]] = Absent THEN Raise("KeyError")
    ELSE WalkFirst(h[cursor.v][path[n]], path, n + 1, h)

\* _cursor[i] for every segment i of the path from position n on
RECURSIVE Walk(_, _, _, _)
Walk(cursor, path, n, h) ==
    IF n > Len(path) THEN Ok(cursor)
    ELSE IF ~IsDict(cursor) THEN Raise("TypeError")
    ELSE IF h[cursor.v][path[n]] = Absent THEN Raise("KeyError")
    ELSE Walk(h[cursor.v][path[n]], path, n + 1, h)

\* A get() of a path provider that always walks the path.
IsFallbackNever(cursor, fb) == FALSE

\* the fallback short-circuit of _ConfigurationItem.get
IsFallback(cursor, fb) == ~IsSentinel(fb) /\ Is(cursor, fb)

\* _ConfigurationItem.get
ItemGet(path, d, fb, h) ==
    LET r == ConfigurationGet(d, fb)
    IN IF r.exc # "" THEN r
       ELSE IF IsFallback(r.val, fb) THEN Ok(fb)
       ELSE Walk(r.val, path, 1, h)

\* _cursor.get(i, sentinel)
DictGet(dict, key, default) == IF dict[key] = Absent THEN default ELSE dict[key]

\* A descent that puts a new dict at every segment before the last, present or not.
RECURSIVE DescendFresh(_, _, _, _, _)
DescendFresh(cursor, path, n, v, h) ==
    IF n = Len(path)
    THEN IF IsDict(cursor)
         THEN [heap |-> [h EXCEPT ![cursor.v][path[n]] = v], ret |-> Ok(NoneV), full |-> FALSE]
         ELSE [heap |-> h, ret |-> Raise("TypeError"), full |-> FALSE]
    ELSE IF ~IsDict(cursor) THEN [heap |-> h, ret |-> Raise("AttributeError"), full |-> FALSE]
    ELSE IF FreeAddrs(h) = {}
         THEN [heap |-> h, ret |-> Raise("MemoryError"), full |-> TRUE]
         ELSE LET new == Ref(NthFree(h, 1))
                  h2 == [h EXCEPT ![new.v] = EmptyDict, ![cursor.v][path[n]] = new]
              IN DescendFresh(new, path, n + 1, v, h2)

\* the loop of _ConfigurationItem.set over path[:-1], from position n on, and
\* then the assignment at the last segment; the result is the heap and the
\* outcome (full: dict() found no free address)
RECURSIVE Descend(_, _, _, _, _)
Descend(cursor, path, n, v, h) ==
    IF n = Len(path)
    THEN IF IsDict(cursor)
         THEN [heap |-> [h EXCEPT ![cursor.v][path[n]] = v], ret |-> Ok(NoneV), full |-> FALSE]
         ELSE [heap |-> h, ret |-> Raise("TypeError"), full |-> FALSE]
    ELSE IF ~IsDict(cursor) THEN [heap |-> h, ret |-> Raise("AttributeError"), full |-> FALSE]
    ELSE LET next == DictGet(h[cursor.v], path[n], Sentinel)
         IN IF IsSentinel(next)
            THEN IF FreeAddrs(h) = {}
                 THEN [heap |-> h, ret |-> Raise("MemoryError"), full |-> TRUE]
                 ELSE LET new == Ref(NthFree(h, 1))
                          h2 == [h EXCEPT ![new.v] = EmptyDict, ![cursor.v][path[n]] = new]
                      IN Descend(new, path, n + 1, v, h2)
            ELSE Descend(next, path, n + 1, v, h)

\* _ConfigurationItem.set
ItemSet(path, v, d, fb, h) ==
    IF IsSentinel(v) THEN [heap |-> h, ret |-> Ok(NoneV), full |-> FALSE]
    ELSE LET r == ConfigurationGet(d, fb)
         IN IF r.exc # "" THEN [heap |-> h, ret |-> r, full |-> FALSE]
            ELSE Descend(r.val, path, 1, v, h)

\* A dict literal: its dict objects, the first the outermost, a nested dict
\* given by its place in the literal.
NoLit == << >>
LitEmpty == <<EmptyDict>>
LitA == <<[EmptyDict EXCEPT !["a"] = Ref(2)], EmptyDict>>
LitAB == <<[EmptyDict EXCEPT !["a"] = Ref(2)], [EmptyDict EXCEPT !["b"] = IntV(1)]>>

\* Evaluating a dict literal allocates its dict objects at free addresses.
CanAlloc(lit, h) == Cardinality(FreeAddrs(h)) >= Len(lit)
Alloc(lit, h) ==
    [i \in DOMAIN h |->
        IF \E n \in 1..Len(lit) : NthFree(h, n) = i
        THEN LET n == CHOOSE n \in 1..Len(lit) : NthFree(h, n) = i
             IN [key \in Keys |->
                    IF IsDict(lit[n][key]) THEN Ref(NthFree(h, lit[n][key].v))
                    ELSE lit[n][key]]
        ELSE h[i]]
LitRef(lit, h) == Ref(NthFree(h, 1))

\* Reference counting: a dict that nothing refers to any more is freed.
RECURSIVE ReachFrom(_, _)
ReachFrom(S, h) ==
    LET T == S \cup {x.v : x \in {y \in {h[i][key] : i \in S, key \in Keys} : IsDict(y)}}
    IN IF T = S THEN S ELSE ReachFrom(T, h)
Roots(vals) == {x.v : x \in {x \in vals : IsDict(x)}}
Collect(h, vals) ==
    LET live == ReachFrom(Roots(vals), h)
    IN [i \in DOMAIN h |-> IF i \in live THEN h[i] ELSE FreeSlot]

\* ---------------------------------------------------- injection wrapper

\* def h(x, y=Provide[s], z=9), decorated with inject
Params == <<"x", "y", "z">>
ParamNames == {Params[i] : i \in DOMAIN Params}
ParamIndex(name) == CHOOSE i \in DOMAIN Params : Params[i] = name
\* inspect.Parameter.empty: the parameter declares no default
Empty == [k |-> "empty", v |-> 0]
\* _ProvideClass.__getitem__: Provide[provider] is the provider itself
ProvideGetitem(provider) == provider
Defaults == [x |-> Empty, y |-> ProvideGetitem(ProvV("s")), z |-> IntV(9)]

\* a parameter that has no argument bound
Unbound == [k |-> "unbound", v |-> 0]
KwNames(kw) == {kw[i].name : i \in DOMAIN kw}
KwVal(kw, name) == kw[CHOOSE i \in DOMAIN kw : kw[i].name = name].val

\* the placeholder test of _inject, by the respect_none policy
IsPlaceholder(x, respect_none) == IF ~respect_none THEN IsSentinel(x) ELSE x = NoneV

\* filtered_args
RECURSIVE FilterArgs(_, _)
FilterArgs(a, respect_none) ==
    IF a = << >> THEN << >>
    ELSE IF IsPlaceholder(Head(a), respect_none) THEN FilterArgs(Tail(a), respect_none)
    ELSE <<Head(a)>> \o FilterArgs(Tail(a), respect_none)

\* filtered_kwargs
RECURSIVE FilterKwargs(_, _)
FilterKwargs(kw, respect_none) ==
    IF kw = << >> THEN << >>
    ELSE IF IsPlaceholder(Head(kw).val, respect_none) THEN FilterKwargs(Tail(kw), respect_none)
    ELSE <<Head(kw)>> \o FilterKwargs(Tail(kw), respect_none)

\* sig.bind_partial(*args, **kwargs): positional arguments bind to the parameters
\* in order, keyword arguments by name; a parameter may stay unbound
BindPartial(a, kw) ==
    IF Len(a) > Len(Params) THEN [exc |-> "TypeError", arguments |-> << >>]
    ELSE IF \E i \in 1..Len(a) : Params[i] \in KwNames(kw)
         THEN [exc |-> "TypeError", arguments |-> << >>]
    ELSE IF ~(KwNames(kw) \subseteq ParamNames)
         THEN [exc |-> "TypeError", arguments |-> << >>]
    ELSE [exc |-> "",
          arguments |->
             [name \in ParamNames |->
                 IF ParamIndex(name) <= Len(a) THEN a[ParamIndex(name)]
                 ELSE IF name \in KwNames(kw) THEN KwVal(kw, name)
                 ELSE Unbound]]

\* Defaults in which a provider is replaced by the value it was constructed with.
ApplyDefaultsEager(arguments) ==
    [name \in ParamNames |->
        IF arguments[name] # Unbound THEN arguments[name]
        ELSE IF Defaults[name] = Empty THEN Unbound
        ELSE IF IsProvider(Defaults[name]) THEN value[ProvNames[Defaults[name].v]]
        ELSE Defaults[name]]

\* bind.apply_defaults(): an unbound parameter gets its declared default, if any
ApplyDefaults(arguments) ==
    [name \in ParamNames |->
        IF arguments[name] # Unbound THEN arguments[name]
        ELSE IF Defaults[name] # Empty THEN Defaults[name]
        ELSE Unbound]

\* bind.args: the bound parameters up to the first unbound one
RECURSIVE BoundArgsFrom(_, _)
BoundArgsFrom(arguments, i) ==
    IF i > Len(Params) \/ arguments[Params[i]] = Unbound THEN << >>
    ELSE <<arguments[Params[i]]>> \o BoundArgsFrom(arguments, i + 1)
BoundArgs(arguments) == BoundArgsFrom(arguments, 1)

\* bind.kwargs: the bound parameters after the first unbound one
RECURSIVE BoundKwargsFrom(_, _, _)
BoundKwargsFrom(arguments, i, started) ==
    IF i > Len(Params) THEN << >>
    ELSE IF arguments[Params[i]] = Unbound THEN BoundKwargsFrom(arguments, i + 1, TRUE)
    ELSE IF started
         THEN <<[name |-> Params[i], val |-> arguments[Params[i]]]>>
              \o BoundKwargsFrom(arguments, i + 1, TRUE)
    ELSE BoundKwargsFrom(arguments, i + 1, FALSE)
BoundKwargs(arguments) == BoundKwargsFrom(arguments, 1, FALSE)

\* The value the wrapped function received for a parameter on its last run.
Received(fa, name) ==
    IF ParamIndex(name) <= Len(fa.args) THEN fa.args[ParamIndex(name)]
    ELSE IF name \in KwNames(fa.kwargs) THEN KwVal(fa.kwargs, name)
    ELSE Unbound

\* func(*args, **kwargs): h runs when every parameter without a default has a value
CallWrapped(fn, a, kw, st) ==
    IF \E name \in ParamNames :
          Defaults[name] = Empty /\ Received([args |-> a, kwargs |-> kw], name) = Unbound
    THEN [st |-> st, ret |-> Raise("TypeError")]
    ELSE CallFunc(fn, a, kw, st)

\* the wrapper that _inject returns, called with args and kwargs
InjectCall(a, kw, respect_none, st) ==
    LET b == BindPartial(FilterArgs(a, respect_none), FilterKwargs(kw, respect_none))
    IN IF b.exc # "" THEN [st |-> st, ret |-> Raise(b.exc)]
       ELSE LET bound == ApplyDefaults(b.arguments)
                ra == InjectArgs(BoundArgs(bound), st)
            IN IF ra.exc # "" THEN [st |-> ra.st, ret |-> Raise(ra.exc)]
               ELSE LET rk == InjectKwargs(BoundKwargs(bound), ra.st)
                    IN IF rk.exc # "" THEN [st |-> rk.st, ret |-> Raise(rk.exc)]
                       ELSE CallWrapped("h", ra.vals, rk.vals, rk.st)

\* A decorator whose respect_none parameter defaults to False.
RespectNoneDefaultFalse == FALSE

\* inject(func=None, respect_none=True): the policy of the wrapper, by the way
\* the decorator was applied
RespectNoneDefault == TRUE
Inject(deco) ==
    CASE deco = "inject" -> RespectNoneDefault
      [] deco = "inject(respect_none=True)" -> TRUE
      [] deco = "inject(respect_none=False)" -> FALSE
NoWrapper == [deco |-> "", respect_none |-> FALSE]

\* ------------------------------------------------------------- history

NoPath == << >>
NoPrev == "none"

Record(op, p, path, v) ==
    LET same == last.p = p /\ last.path = path
    IN /\ last' = [op |-> op, p |-> p, path |-> path, v |-> IF op = "call" THEN Sentinel ELSE v]
       /\ cargs' = IF op = "call" THEN v ELSE NoArgs
       /\ setv' = IF same /\ last.op = "set" THEN last.v ELSE Sentinel
       /\ prev' = IF ~same THEN NoPrev
                  ELSE IF ret.exc # "" THEN last.op \o "!"
                  ELSE IF last.op = "reset" /\ prev = "set" THEN "set;reset"
                  ELSE IF last.op = "set" /\ prev = "get!" THEN "get!;set"
                  ELSE last.op

\* ------------------------------------------------------------- actions

\* The classes that inherit set, get and reset from Provider.
BaseClasses == {"Static", "Callable", "MemoizedCallable"}
BaseProviders == {p \in objs \cap DOMAIN ClassOf : ClassOf[p] \in BaseClasses}

\* The values a caller passes to set(): the sentinel, None, a falsy value and a
\* provider.
SetInputs == {Sentinel, NoneV, IntV(0), ProvV("s")}

\* Provider.set(value)
ProviderSet(p, v) ==
    /\ override' = [override EXCEPT ![p] = v]
    /\ ret' = Ok(NoneV)
    /\ Record("set", p, NoPath, v)
    /\ fargs' = NoRuns
    /\ got' = << >>
    /\ UNCHANGED <<threads, objs, value, cache, calls, data, fallback, heap, wrapper>>

\* A reset() that leaves the override in place.
ProviderResetKeep(p) ==
    /\ override' = override
    /\ ret' = Ok(NoneV)
    /\ Record("reset", p, NoPath, Sentinel)
    /\ fargs' = NoRuns
    /\ got' = << >>
    /\ UNCHANGED <<threads, objs, value, cache, calls, data, fallback, heap, wrapper>>

\* A reset() that empties the memoization cache as well.
ProviderResetForget(p) ==
    /\ override' = [override EXCEPT ![p] = Sentinel]
    /\ cache' = [q \in DOMAIN cache |-> IF q = p THEN Sentinel ELSE cache[q]]
    /\ ret' = Ok(NoneV)
    /\ Record("reset", p, NoPath, Sentinel)
    /\ fargs' = NoRuns
    /\ got' = << >>
    /\ UNCHANGED <<threads, objs, value, calls, data, fallback, heap, wrapper>>

\* Provider.reset()
ProviderReset(p) ==
    /\ override' = [override EXCEPT ![p] = Sentinel]
    /\ ret' = Ok(NoneV)
    /\ Record("reset", p, NoPath, Sentinel)
    /\ fargs' = NoRuns
    /\ got' = << >>
    /\ UNCHANGED <<threads, objs, value, cache, calls, data, fallback, heap, wrapper>>

\* p.get() on a Static, Callable or MemoizedCallable
ProviderGetOp(p) ==
    \E r \in {ProviderGet(p, State)} :
       /\ \A fn \in DOMAIN calls : r.st.calls[fn] <= MaxCalls
       /\ override' = r.st.override
       /\ cache' = r.st.cache
       /\ calls' = r.st.calls
       /\ fargs' = r.st.fargs
       /\ got' = r.st.got
       /\ ret' = r.ret
       /\ Record("get", p, NoPath, Sentinel)
       /\ UNCHANGED <<threads, objs, value, data, fallback, heap, wrapper>>

\* The values a caller passes to Configuration.set(): the sentinel, the
\* fallback object, and (below) fresh dict literals.
ConfigSetInputs == {Sentinel} \cup ({fallback} \ {Sentinel})
ConfigLiterals == {LitA}

\* config.set(value); h is the heap once the caller has built the value
ConfigurationSetOp(v, h) ==
    /\ "cfg" \in objs
    /\ data' = ConfigurationSet(data, v)
    /\ heap' = Collect(h, {data', fallback})
    /\ ret' = Ok(NoneV)
    /\ Record("set", "cfg", NoPath, v)
    /\ fargs' = NoRuns
    /\ got' = << >>
    /\ UNCHANGED <<threads, objs, value, override, cache, calls, fallback, wrapper>>

\* config.get()
ConfigurationGetOp ==
    /\ "cfg" \in objs
    /\ ret' = ConfigurationGet(data, fallback)
    /\ Record("get", "cfg", NoPath, Sentinel)
    /\ fargs' = NoRuns
    /\ got' = << >>
    /\ UNCHANGED <<threads, objs, value, override, cache, calls, data, fallback, heap, wrapper>>

\* A reset() that forgets the data and returns.
ConfigurationResetClear ==
    /\ "cfg" \in objs
    /\ data' = Sentinel
    /\ heap' = Collect(heap, {fallback})
    /\ ret' = Ok(NoneV)
    /\ Record("reset", "cfg", NoPath, Sentinel)
    /\ fargs' = NoRuns
    /\ got' = << >>
    /\ UNCHANGED <<threads, objs, value, override, cache, calls, fallback, wrapper>>

\* config.reset()
ConfigurationResetOp ==
    /\ "cfg" \in objs
    /\ ret' = Raise("NotImplementedError")
    /\ Record("reset", "cfg", NoPath, Sentinel)
    /\ fargs' = NoRuns
    /\ got' = << >>
    /\ UNCHANGED <<threads, objs, value, override, cache, calls, data, fallback, heap, wrapper>>

\* The values a caller passes to set() of a path provider.
ItemSetInputs == {Sentinel, IntV(5)}

\* config.<path>.set(value); h is the heap once the caller has built the value
ItemSetOp(path, v, h) ==
    /\ "cfg" \in objs
    /\ \E r \in {ItemSet(path, v, data, fallback, h)} :
          /\ ~r.full
          /\ heap' = Collect(r.heap, {data, fallback})
          /\ ret' = r.ret
    /\ Record("set", "item", path, v)
    /\ fargs' = NoRuns
    /\ got' = << >>
    /\ UNCHANGED <<threads, objs, value, override, cache, calls, data, fallback, wrapper>>

\* A get() that walks the path as set() does, putting None where nothing is.
ItemGetOpMaterialize(path) ==
    /\ "cfg" \in objs
    /\ \E r \in {ItemSet(path, NoneV, data, fallback, heap)} :
          /\ ~r.full
          /\ heap' = Collect(r.heap, {data, fallback})
          /\ ret' = ItemGet(path, data, fallback, heap')
    /\ Record("get", "item", path, Sentinel)
    /\ fargs' = NoRuns
    /\ got' = << >>
    /\ UNCHANGED <<threads, objs, value, override, cache, calls, data, fallback, wrapper>>

\* config.<path>.get()
ItemGetOp(path) ==
    /\ "cfg" \in objs
    /\ ret' = ItemGet(path, data, fallback, heap)
    /\ Record("get", "item", path, Sentinel)
    /\ fargs' = NoRuns
    /\ got' = << >>
    /\ UNCHANGED <<threads, objs, value, override, cache, calls, data, fallback, heap, wrapper>>

\* config.<path>.reset()
ItemResetOp(path) ==
    /\ "cfg" \in objs
    /\ ret' = Raise("NotImplementedError")
    /\ Record("reset", "item", path, Sentinel)
    /\ fargs' = NoRuns
    /\ got' = << >>
    /\ UNCHANGED <<threads, objs, value, override, cache, calls, data, fallback, heap, wrapper>>

\* The arguments a caller passes to the wrapper: up to one positional argument
\* per parameter, and y by keyword; by keyword, a provider as well.
CallValues == {IntV(1), NoneV, Sentinel}
CallArgs == UNION {[1..n -> CallValues] : n \in 0..Len(Params)}
CallKwargs ==
    {<< >>} \cup {<<[name |-> "y", val |-> v]>> : v \in CallValues \cup {ProvV("s")}}
\* A call that gives every parameter by position gives none by keyword.
CallKwargsFor(a) == IF Len(a) = Len(Params) THEN {<< >>} ELSE CallKwargs

\* h(*args, **kwargs)
InjectCallOp(a, kw) ==
    /\ "h" \in objs
    /\ \E r \in {InjectCall(a, kw, wrapper.respect_none, State)} :
          /\ \A fn \in DOMAIN calls : r.st.calls[fn] <= MaxCalls
          /\ override' = r.st.override
          /\ cache' = r.st.cache
          /\ calls' = r.st.calls
          /\ fargs' = r.st.fargs
          /\ got' = r.st.got
          /\ ret' = r.ret
    /\ Record("call", "h", NoPath, [args |-> a, kwargs |-> kw])
    /\ UNCHANGED <<threads, objs, value, data, fallback, heap, wrapper>>

\* ------------------------------------------------------- construction

\* The values a Static is constructed with.
StaticInputs == {IntV(7)}

\* No thread of control besides the caller's.
NoThreads == << >>

\* s = Static(v0); c = Callable(f, s, 3); m = MemoizedCallable(g, 4, k=c)
ProvidersGraph ==
    /\ objs = {"s", "c", "m"}
    /\ value \in [{"s"} -> StaticInputs]
    /\ override = [p \in {"s", "c", "m"} |-> Sentinel]
    /\ cache = [p \in {"m"} |-> Sentinel]
    /\ calls = [fn \in {"f", "g"} |-> 0]
    /\ fargs = [fn \in {"f", "g"} |-> NoArgs]
    /\ got = << >>
    /\ data = Sentinel
    /\ fallback = Sentinel
    /\ heap = EmptyHeap
    /\ wrapper = NoWrapper
    /\ cargs = NoArgs
    /\ last = [op |-> "init", p |-> "", path |-> NoPath, v |-> Sentinel]
    /\ setv = Sentinel
    /\ prev = NoPrev
    /\ ret = Ok(NoneV)

\* The providers, used by one thread of control.
InitProviders == ProvidersGraph /\ threads = NoThreads

\* config = Configuration(data=..., fallback=...): data is absent or a dict
\* literal, fallback is absent, "X" or a dict
InitConfiguration ==
    /\ objs = {"cfg"}
    /\ value = << >>
    /\ override = [p \in {"cfg"} |-> Sentinel]
    /\ cache = << >>
    /\ calls = << >>
    /\ fargs = << >>
    /\ got = << >>
    /\ \E dl \in {NoLit, LitEmpty, LitAB}, fl \in {NoLit, LitEmpty}, fv \in {Sentinel, StrV(0)} :
          LET h1 == Alloc(fl, EmptyHeap)
          IN /\ fallback = IF fl = NoLit THEN fv ELSE LitRef(fl, EmptyHeap)
             /\ data = IF dl = NoLit THEN Sentinel ELSE LitRef(dl, h1)
             /\ heap = Alloc(dl, h1)
    /\ wrapper = NoWrapper
    /\ cargs = NoArgs
    /\ last = [op |-> "init", p |-> "", path |-> NoPath, v |-> Sentinel]
    /\ setv = Sentinel
    /\ prev = NoPrev
    /\ ret = Ok(NoneV)
    /\ threads = NoThreads

\* s = Static(v0); h = inject(...)(def h(x, y=Provide[s], z=9))
InitInject ==
    /\ objs = {"s", "h"}
    /\ value \in [{"s"} -> StaticInputs]
    /\ override = [p \in {"s"} |-> Sentinel]
    /\ cache = << >>
    /\ calls = [fn \in {"h"} |-> 0]
    /\ fargs = [fn \in {"h"} |-> NoArgs]
    /\ got = << >>
    /\ data = Sentinel
    /\ fallback = Sentinel
    /\ heap = EmptyHeap
    /\ \E deco \in {"inject", "inject(respect_none=True)", "inject(respect_none=False)"} :
          wrapper = [deco |-> deco, respect_none |-> Inject(deco)]
    /\ cargs = NoArgs
    /\ last = [op |-> "init", p |-> "", path |-> NoPath, v |-> Sentinel]
    /\ setv = Sentinel
    /\ prev = NoPrev
    /\ ret = Ok(NoneV)
    /\ threads = NoThreads

Init == InitProviders \/ InitConfiguration \/ InitInject

Next ==
    \/ \E p \in BaseProviders, v \in SetInputs : ProviderSet(p, v)
    \/ \E p \in BaseProviders : ProviderReset(p)
    \/ \E p \in BaseProviders : ProviderGetOp(p)
    \/ \E v \in ConfigSetInputs : ConfigurationSetOp(v, heap)
    \/ \E lit \in ConfigLiterals :
          CanAlloc(lit, heap) /\ ConfigurationSetOp(LitRef(lit, heap), Alloc(lit, heap))
    \/ ConfigurationGetOp
    \/ ConfigurationResetOp
    \/ \E path \in Paths, v \in ItemSetInputs : ItemSetOp(path, v, heap)
    \/ \E path \in Paths : ItemGetOp(path)
    \/ \E path \in Paths : ItemResetOp(path)
    \/ \E a \in CallArgs : \E kw \in CallKwargsFor(a) : InjectCallOp(a, kw)

Spec == Init /\ [][Next]_vars

\* ------------------------------------------------- concurrent get() calls

\* Threads of control call m.get() on the MemoizedCallable m concurrently, and
\* set() and reset() are called on m in between.  A thread is between two
\* calls ("idle"), or inside get() before the statement named by its pc.
Threads == 1..MaxThreads
IdleThread == [pc |-> "idle", value |-> Sentinel, ret |-> Sentinel, runs |-> 0]

\* Provider.get, the test of the override: return it, or go on to _provide()
ThreadGet(t) ==
    /\ threads[t].pc = "idle"
    /\ threads' = [threads EXCEPT ![t] =
                      IF HasOverride("m", State)
                      THEN [@ EXCEPT !.ret = override["m"]]
                      ELSE [@ EXCEPT !.pc = "provide"]]
    /\ UNCHANGED <<objs, value, override, cache, calls, fargs, got, data, fallback, heap,
                   wrapper, cargs, last, setv, prev, ret>>

\* A test of the cache that never finds a result.
ThreadCheckBlind(t) ==
    /\ threads[t].pc = "provide"
    /\ threads' = [threads EXCEPT ![t] = [@ EXCEPT !.pc = "call"]]
    /\ UNCHANGED <<objs, value, override, cache, calls, fargs, got, data, fallback, heap,
                   wrapper, cargs, last, setv, prev, ret>>

\* MemoizedCallable._provide, the test of the cache: return it, or go on to
\* the call
ThreadCheck(t) ==
    /\ threads[t].pc = "provide"
    /\ threads' = [threads EXCEPT ![t] =
                      IF ~IsSentinel(cache["m"])
                      THEN [@ EXCEPT !.pc = "idle", !.ret = cache["m"]]
                      ELSE [@ EXCEPT !.pc = "call"]]
    /\ UNCHANGED <<objs, value, override, cache, calls, fargs, got, data, fallback, heap,
                   wrapper, cargs, last, setv, prev, ret>>

\* value = self._func(*_inject_args(self._args), **_inject_kwargs(self._kwargs))
ThreadCall(t) ==
    /\ threads[t].pc = "call"
    /\ \E r \in {CallInjected("m", State)} :
          /\ calls' = r.st.calls
          /\ fargs' = r.st.fargs
          /\ got' = r.st.got
          /\ threads' = [threads EXCEPT ![t] =
                            [@ EXCEPT !.pc = "store", !.value = r.ret.val, !.runs = @ + 1]]
    /\ UNCHANGED <<objs, value, override, cache, data, fallback, heap, wrapper, cargs,
                   last, setv, prev, ret>>

\* self._cache = value
ThreadStore(t) ==
    /\ threads[t].pc = "store"
    /\ cache' = [cache EXCEPT !["m"] = threads[t].value]
    /\ threads' = [threads EXCEPT ![t] = [@ EXCEPT !.pc = "return"]]
    /\ UNCHANGED <<objs, value, override, calls, fargs, got, data, fallback, heap, wrapper,
                   cargs, last, setv, prev, ret>>

\* return value
ThreadReturn(t) ==
    /\ threads[t].pc = "return"
    /\ threads' = [threads EXCEPT ![t] =
                      [@ EXCEPT !.pc = "idle", !.ret = threads[t].value, !.value = Sentinel]]
    /\ UNCHANGED <<objs, value, override, cache, calls, fargs, got, data, fallback, heap,
                   wrapper, cargs, last, setv, prev, ret>>

\* The value that m is overridden with while the threads run.
ThreadSetInputs == {NoneV}

\* The providers, with the threads between calls.
InitThreads == ProvidersGraph /\ threads = [t \in Threads |-> IdleThread]

NextThreads ==
    \/ \E t \in Threads : ThreadGet(t)
    \/ \E t \in Threads : ThreadCheck(t)
    \/ \E t \in Threads : ThreadCall(t)
    \/ \E t \in Threads : ThreadStore(t)
    \/ \E t \in Threads : ThreadReturn(t)
    \/ \E v \in ThreadSetInputs : ProviderSet("m", v)
    \/ ProviderReset("m")

SpecThreads == InitThreads /\ [][NextThreads]_vars

\* ------------------------------------------------------------- properties

\* The last operation was op on provider p.
LastWas(op, p) == last.op = op /\ last.p = p

\* C1 as stated: for a provider of any kind, a set(v) of a value v that is
\* not the sentinel, immediately followed by get() on the same provider, makes
\* that get() return v.
C1_OverrideWinsAnyKind ==
    (last.op = "get" /\ prev \in {"set", "set!"} /\ ~IsSentinel(setv)) => ret = Ok(setv)

\* C1 amended: set(v) with v not the sentinel, immediately followed by get(),
\* returns v for a Static, a Callable, a MemoizedCallable and a Configuration in
\* every state, and for a path provider when its set(v) returned normally and
\* the Configuration holds data that is not its fallback object.
C1_OverrideWins ==
    ( /\ last.op = "get"
      /\ prev = "set"
      /\ ~IsSentinel(setv)
      /\ last.p = "item" => (~IsSentinel(data) /\ ~IsFallback(data, fallback)) )
    => ret = Ok(setv)

\* C1 witness: None was set on the Callable and the next get() returned None.
C1_Witness ==
    /\ LastWas("get", "c") /\ prev = "set" /\ setv = NoneV /\ ret = Ok(NoneV)
    /\ calls["f"] = 0

\* C1 witness for the path providers: a value written through a.b is read back.
C1_WitnessItem ==
    /\ LastWas("get", "item") /\ last.path = <<"a", "b">> /\ prev = "set"
    /\ setv = IntV(5) /\ ret = Ok(IntV(5))

\* C2: for a Static, a Callable and a MemoizedCallable, the get() that follows
\* set(v); reset() finds no override and returns what the provider itself
\* produces: the Static its value, the Callable the result of a run of its
\* function made by this get(), the MemoizedCallable its cached result, and
\* this after any earlier set() and reset() calls.
C2_ResetClearsOverride ==
    (last.op = "get" /\ prev = "set;reset" /\ last.p \in BaseProviders) =>
        /\ IsSentinel(override[last.p])
        /\ last.p = "s" => ret = Ok(value["s"])
        /\ last.p = "c" => (ret = Ok(Res("f", calls["f"])) /\ fargs["f"] # NoArgs)
        /\ last.p = "m" => (ret = Ok(cache["m"]) /\ cache["m"].k = "res_g")

\* C2 witness: the Callable was overridden, reset, and its get() ran f.
C2_Witness ==
    /\ LastWas("get", "c") /\ prev = "set;reset"
    /\ ret = Ok(Res("f", 2)) /\ fargs["f"].args = <<IntV(7), IntV(3)>>

\* C3: the function g of the MemoizedCallable m runs at most once, whatever
\* set() and reset() calls are made on the providers of its arguments; once it
\* has run, its result is the cache; and every get() of m that finds no
\* override on m itself returns the result of that one run.
C3_MemoizedRunsOnce ==
    "m" \in objs =>
        /\ calls["g"] <= 1
        /\ calls["g"] = 1 <=> cache["m"] = Res("g", 1)
        /\ calls["g"] = 0 <=> IsSentinel(cache["m"])
        /\ (LastWas("get", "m") /\ IsSentinel(override["m"])) =>
              (calls["g"] = 1 /\ ret = Ok(Res("g", 1)))

\* C3 witness: a get() of m that did not run g returned the result of the
\* first run, although the argument provider c, which that run resolved, has
\* been overridden since.
C3_Witness ==
    /\ LastWas("get", "m") /\ ret = Ok(Res("g", 1)) /\ fargs["g"] = NoArgs
    /\ calls["f"] = 1 /\ override["c"] = NoneV /\ override["s"] = IntV(0)
    /\ got = <<"m">>

\* C4: every get() of the Callable c = Callable(f, s, 3) that finds no override
\* on c runs f exactly once more, with the arguments resolved during that
\* get(): the first is what s.get() returns then (the override of s if it has
\* one, else its value), the second is the plain 3; and it returns that run's
\* result.
C4_CallableRunsEachGet ==
    [][ (LastWas("get", "c")' /\ IsSentinel(override["c"])) =>
           /\ calls'["f"] = calls["f"] + 1
           /\ fargs'["f"] =
                 [args |-> <<IF IsSentinel(override["s"]) THEN value["s"] ELSE override["s"],
                             IntV(3)>>,
                  kwargs |-> NoKwargs]
           /\ got' = <<"c", "s">>
           /\ ret' = Ok(Res("f", calls'["f"])) ]_vars

\* C4 witness: the second get() of c in a row ran f a second time, and passed
\* it the None that s was overridden with.
C4_Witness ==
    /\ LastWas("get", "c") /\ calls["f"] = 2 /\ ret = Ok(Res("f", 2))
    /\ fargs["f"].args = <<NoneV, IntV(3)>> /\ IsSentinel(override["c"])

\* C5: every get() of the Configuration returns the data when data is set,
\* else the fallback when a fallback is set, else raises the not-initialized
\* error, and changes neither of them, nor any dict; and when a get() has
\* raised and a set(mapping) follows, the next get() returns that mapping.
C5_ConfigurationGetOrder ==
    [][ LastWas("get", "cfg")' =>
           /\ ~IsSentinel(data) => ret' = Ok(data)
           /\ (IsSentinel(data) /\ ~IsSentinel(fallback)) => ret' = Ok(fallback)
           /\ (IsSentinel(data) /\ IsSentinel(fallback)) => ret' = Raise("ValueError")
           /\ UNCHANGED <<data, fallback, heap>>
           /\ (prev' = "get!;set" /\ ~IsSentinel(setv')) =>
                 (ret' = Ok(setv') /\ IsDict(setv') /\ heap[setv'.v] # FreeSlot) ]_vars

\* C5 witness: get() raised, set({"a": {}}) followed, and get() returned that
\* mapping.
C5_Witness ==
    /\ LastWas("get", "cfg") /\ prev = "get!;set" /\ IsSentinel(fallback)
    /\ ret = Ok(data) /\ IsDict(data) /\ heap[data.v]["a"] # Absent

\* What the mapping that the Configuration holds has at a path: the data for
\* the empty path, else the entry of the last segment in what it has at the
\* path without that segment.
RECURSIVE ValueAt(_, _, _)
ValueAt(path, d, h) ==
    IF path = << >> THEN Ok(d)
    ELSE LET parent == ValueAt(SubSeq(path, 1, Len(path) - 1), d, h)
             key == path[Len(path)]
         IN IF parent.exc # "" THEN parent
            ELSE IF ~IsDict(parent.val) THEN Raise("TypeError")
            ELSE IF h[parent.val.v][key] = Absent THEN Raise("KeyError")
            ELSE Ok(h[parent.val.v][key])

\* C6: when the Configuration holds data that is not its fallback object, every
\* get() of a path provider returns what the mapping held at the moment of the
\* call has at the path (or raises as the lookup does); in particular, right
\* after a.b.set(v) has returned, a.get() returns a dict whose b is v.
C6_PathResolvesLive ==
    [][ (LastWas("get", "item")' /\ ~IsSentinel(data) /\ ~IsFallback(data, fallback)) =>
           /\ ret' = ValueAt(last'.path, data, heap)
           /\ ( /\ LastWas("set", "item") /\ last.path = <<"a", "b">> /\ ret.exc = ""
                 /\ ~IsSentinel(last.v) /\ last'.path = <<"a">> ) =>
                 (ret'.exc = "" /\ IsDict(ret'.val) /\ heap[ret'.val.v]["b"] = last.v) ]_vars

\* C6 witness: a.get() returned a dict whose a is the 5 that was written
\* through the path provider a.a, with other operations in between.
C6_Witness ==
    /\ LastWas("get", "item") /\ last.path = <<"a">> /\ prev = NoPrev
    /\ ret.exc = "" /\ IsDict(ret.val) /\ heap[ret.val.v]["a"] = IntV(5)
    /\ ~IsSentinel(data) /\ ~IsFallback(data, fallback)

\* Every key sequence up to the longest path, and the prefix order on them.
AllPaths == UNION {[1..n -> Keys] : n \in 1..MaxPathLen}
IsPrefix(q, path) == Len(q) <= Len(path) /\ SubSeq(path, 1, Len(q)) = q

\* C7: when set(v), v not the sentinel, on a path provider of a Configuration
\* that holds data returns normally, the mapping has v at the path; every
\* segment before the last that was present is the same dict object as before,
\* and every one that was missing is a new dict holding nothing but the next
\* segment; and every key sequence that is neither a prefix nor an extension of
\* the path leads to what it led to before.  The Configuration's data and
\* fallback attributes are as before.
C7_ItemSetMaterializes ==
    [][ ( /\ LastWas("set", "item")' /\ ~IsSentinel(last'.v)
          /\ ~IsSentinel(data) /\ ret'.exc = "" ) =>
           LET path == last'.path
           IN /\ UNCHANGED <<data, fallback>>
              /\ ValueAt(path, data, heap') = Ok(last'.v)
              /\ \A n \in 1..(Len(path) - 1) :
                    LET before == ValueAt(SubSeq(path, 1, n), data, heap)
                        after == ValueAt(SubSeq(path, 1, n), data, heap')
                    IN /\ after.exc = "" /\ IsDict(after.val)
                       /\ before.exc = "" => after = before
                       /\ before.exc # "" =>
                             /\ before = Raise("KeyError")
                             /\ heap[after.val.v] = FreeSlot
                             /\ \A key \in Keys \ {path[n + 1]} :
                                   heap'[after.val.v][key] = Absent
              /\ \A r \in AllPaths :
                    (~IsPrefix(r, path) /\ ~IsPrefix(path, r)) =>
                        ValueAt(r, data, heap') = ValueAt(r, data, heap) ]_vars

\* C7 witness: a.b.set(5) has left the Configuration, which has no fallback,
\* holding {"a": {"b": 5}}.
C7_Witness ==
    /\ LastWas("set", "item") /\ last.path = <<"a", "b">> /\ last.v = IntV(5)
    /\ ret = Ok(NoneV) /\ IsSentinel(fallback) /\ IsDict(data)
    /\ heap[data.v]["b"] = Absent /\ IsDict(heap[data.v]["a"])
    /\ heap[heap[data.v]["a"].v] = [EmptyDict EXCEPT !["b"] = IntV(5)]

\* C8: while the Configuration has no data and has a fallback, get() of the
\* Configuration and get() of every path provider return the fallback object
\* itself; once it holds data that is another object than the fallback, get()
\* of a path provider is the lookup of its path in the data and is not the
\* fallback.
C8_WholeTreeFallback ==
    /\ (last.op = "get" /\ last.p \in {"cfg", "item"}
           /\ IsSentinel(data) /\ ~IsSentinel(fallback)) => ret = Ok(fallback)
    /\ (LastWas("get", "item") /\ ~IsSentinel(data) /\ ~IsSentinel(fallback)
           /\ ~Is(data, fallback)) =>
          (ret = ValueAt(last.path, data, heap) /\ ret # Ok(fallback))

\* C8 witness: with no data and the fallback "X", a.b.get() returned "X".
C8_Witness ==
    /\ LastWas("get", "item") /\ last.path = <<"a", "b">>
    /\ IsSentinel(data) /\ fallback = StrV(0) /\ ret = Ok(StrV(0))

\* C8 witness of the second part: the Configuration with the fallback "X" holds
\* data, and a.b.get() returned the 1 found there.
C8_WitnessData ==
    /\ LastWas("get", "item") /\ last.path = <<"a", "b">>
    /\ IsDict(data) /\ fallback = StrV(0) /\ ret = Ok(IntV(1))

\* The ways of calling h(x, y=Provide[s], z=9) that C9 is about: y is omitted,
\* or y is given the plain value 1 by position after a plain x, or by keyword.
YOmitted == Len(cargs.args) < 2 /\ "y" \notin KwNames(cargs.kwargs)
YExplicit ==
    \/ Len(cargs.args) >= 2 /\ cargs.args[1] = IntV(1) /\ cargs.args[2] = IntV(1)
    \/ Len(cargs.args) < 2 /\ cargs.kwargs = <<[name |-> "y", val |-> IntV(1)]>>

\* C9: a call of the wrapper that returns normally has run h; when the call
\* omits y, h received for y what s.get() returns at the call (the override of
\* s if it has one, else its value) and s.get() was called once; when the call
\* gives y the plain value 1, h received 1 for y and s.get() was not called.
C9_InjectOmitted ==
    (LastWas("call", "h") /\ ret.exc = "") =>
        /\ ret = Ok(Res("h", calls["h"])) /\ fargs["h"] # NoArgs
        /\ YOmitted =>
              /\ Received(fargs["h"], "y") =
                    (IF IsSentinel(override["s"]) THEN value["s"] ELSE override["s"])
              /\ got = <<"s">>
        /\ YExplicit => (Received(fargs["h"], "y") = IntV(1) /\ got = << >>)

\* C9 witness: h(1) after s.set(None) ran h with y = None.
C9_Witness ==
    /\ LastWas("call", "h") /\ cargs = [args |-> <<IntV(1)>>, kwargs |-> NoKwargs]
    /\ override["s"] = NoneV /\ ret.exc = "" /\ got = <<"s">>
    /\ fargs["h"].args = <<IntV(1), NoneV, IntV(9)>>

\* C9 witness of the second part: h(1, 1) ran h with y = 1 and without s.get().
C9_WitnessExplicit ==
    /\ LastWas("call", "h") /\ cargs = [args |-> <<IntV(1), IntV(1)>>, kwargs |-> NoKwargs]
    /\ ret.exc = "" /\ got = << >> /\ fargs["h"].args = <<IntV(1), IntV(1), IntV(9)>>

\* The call gives y the value v: by position, or by keyword.
YGiven(v) ==
    \/ Len(cargs.args) >= 2 /\ cargs.args[2] = v
    \/ Len(cargs.args) < 2 /\ cargs.kwargs = <<[name |-> "y", val |-> v]>>
\* The same, with nothing in the call but a plain x and y, y the last argument.
YGivenLast(v) ==
    \/ cargs = [args |-> <<IntV(1), v>>, kwargs |-> NoKwargs]
    \/ cargs = [args |-> <<IntV(1)>>, kwargs |-> <<[name |-> "y", val |-> v]>>]
\* h received for y what s.get() returned during the call.
YInjected ==
    /\ Received(fargs["h"], "y") =
          (IF IsSentinel(override["s"]) THEN value["s"] ELSE override["s"])
    /\ got = <<"s">>
\* h received v for y, and s.get() was not called.
YPassed(v) == Received(fargs["h"], "y") = v /\ got = << >>

\* C10 as stated: in a call of the wrapper that returns normally, with
\* respect_none=True a None given for y is treated as absent and y is injected;
\* with respect_none=False a None given for y reaches h as None with no
\* injection, and a not_passed given for y is treated as absent and y is
\* injected.
C10_PlaceholderPolicy ==
    (LastWas("call", "h") /\ ret.exc = "") =>
        /\ (wrapper.respect_none /\ YGiven(NoneV)) => YInjected
        /\ (~wrapper.respect_none /\ YGiven(NoneV)) => YPassed(NoneV)
        /\ (~wrapper.respect_none /\ YGiven(Sentinel)) => YInjected

\* C10 where it holds: the same, for the calls in which the placeholder is the
\* last argument and x is a plain value.
C10_PlaceholderPolicyLast ==
    (LastWas("call", "h") /\ ret.exc = "") =>
        /\ (wrapper.respect_none /\ YGivenLast(NoneV)) => YInjected
        /\ (~wrapper.respect_none /\ YGivenLast(NoneV)) => YPassed(NoneV)
        /\ (~wrapper.respect_none /\ YGivenLast(Sentinel)) => YInjected

\* C10 witness: under respect_none=True, h(1, None, 1) ran h with y = 1 and
\* z = 9: the argument given for z took the place of the None.
C10_Witness ==
    /\ LastWas("call", "h") /\ wrapper.deco = "inject(respect_none=True)"
    /\ cargs = [args |-> <<IntV(1), NoneV, IntV(1)>>, kwargs |-> NoKwargs]
    /\ ret.exc = "" /\ got = << >>
    /\ fargs["h"].args = <<IntV(1), IntV(1), IntV(9)>>

\* C10 witness where it holds: under respect_none=True, h(1, y=None) ran h
\* with the value of s for y.
C10_WitnessLast ==
    /\ LastWas("call", "h") /\ wrapper.deco = "inject(respect_none=True)"
    /\ cargs = [args |-> <<IntV(1)>>, kwargs |-> <<[name |-> "y", val |-> NoneV]>>]
    /\ ret.exc = "" /\ got = <<"s">>
    /\ fargs["h"].args = <<IntV(1), IntV(7), IntV(9)>>

C12_ResetAlwaysFails ==
    [][ (last'.op = "reset" /\ last'.p \in {"cfg", "item"}) =>
           /\ ret' = Raise("NotImplementedError")
           /\ UNCHANGED <<data, fallback, heap, override>>
           /\ ConfigurationGet(data', fallback') = ConfigurationGet(data, fallback)
           /\ \A path \in Paths :
                 ItemGet(path, data', fallback', heap') = ItemGet(path, data, fallback, heap)
      ]_vars

\* C12 witness: a.b.reset() raised on a Configuration holding data, right
\* after a.b.get() had returned.
C12_Witness ==
    /\ LastWas("reset", "item") /\ last.path = <<"a", "b">> /\ prev = "get"
    /\ ret = Raise("NotImplementedError") /\ IsDict(data)
    /\ ItemGet(<<"a", "b">>, data, fallback, heap) = Ok(IntV(1))

\* C12 witness on a Configuration with neither data nor fallback.
C12_WitnessUninitialized ==
    /\ LastWas("reset", "cfg") /\ ret = Raise("NotImplementedError")
    /\ IsSentinel(data) /\ IsSentinel(fallback)

\* C12 witness on a Configuration with a fallback and no data.
C12_WitnessFallback ==
    /\ LastWas("reset", "cfg") /\ ret = Raise("NotImplementedError")
    /\ IsSentinel(data) /\ fallback = StrV(0)

\* C13: once the cache of the MemoizedCallable m holds a result, no operation
\* changes it or runs g again; and the get() of m that follows set(v); reset()
\* on m with a result cached returns that result, g having run once.
C13_CacheIndependentOfOverride ==
    [][ ("m" \in objs /\ ~IsSentinel(cache["m"])) =>
           /\ cache'["m"] = cache["m"]
           /\ calls'["g"] = calls["g"]
           /\ (LastWas("get", "m")' /\ prev' = "set;reset") =>
                 (ret' = Ok(cache["m"]) /\ calls'["g"] = 1 /\ fargs'["g"] = NoArgs)
      ]_vars

\* C13 witness: with a result cached, m was overridden with None and reset,
\* and its get() returned the cached result without a run of g.
C13_Witness ==
    /\ LastWas("get", "m") /\ prev = "set;reset"
    /\ ret = Ok(Res("g", 1)) /\ cache["m"] = Res("g", 1)
    /\ calls["g"] = 1 /\ fargs["g"] = NoArgs /\ calls["f"] = 1

\* A segment of the path is absent from the mapping d: what the path leads to
\* before that segment is a dict without that key.
MissingSegment(path, d, h) ==
    \E n \in 1..Len(path) :
       LET parent == ValueAt(SubSeq(path, 1, n - 1), d, h)
       IN parent.exc = "" /\ IsDict(parent.val) /\ h[parent.val.v][path[n]] = Absent

\* C14: no get() of a path provider, returning or raising, changes the data,
\* the fallback or any dict; and when the Configuration holds data that is not
\* its fallback object and a segment of the path is absent from it, the get()
\* raises KeyError.
C14_GetMissingKeyNoWrite ==
    [][ LastWas("get", "item")' =>
           /\ UNCHANGED <<data, fallback, heap>>
           /\ ( /\ ~IsSentinel(data) /\ ~IsFallback(data, fallback)
                 /\ MissingSegment(last'.path, data, heap) ) => ret' = Raise("KeyError")
      ]_vars

\* C14 witness: the Configuration holds {"a": {"b": 1}}, and a.a.get() raised
\* KeyError.
C14_Witness ==
    /\ LastWas("get", "item") /\ last.path = <<"a", "a">> /\ ret = Raise("KeyError")
    /\ IsSentinel(fallback) /\ IsDict(data)
    /\ heap[data.v]["b"] = Absent /\ IsDict(heap[data.v]["a"])
    /\ heap[heap[data.v]["a"].v] = [EmptyDict EXCEPT !["b"] = IntV(1)]

\* C14 witness of the other half of the example: a.b.get() returned 1.
C14_WitnessFound ==
    /\ LastWas("get", "item") /\ last.path = <<"a", "b">> /\ ret = Ok(IntV(1))
    /\ IsSentinel(fallback) /\ IsDict(data)

\* C15: the data field of the Configuration changes only in a set(v) of the
\* Configuration with v not the sentinel, and becomes v; set(Sentinel), set()
\* of a path provider, get() and reset() leave it as it is; and a Configuration
\* that holds data holds data ever after.
C15_ConfigurationTransitions ==
    [][ /\ data' # data =>
              (LastWas("set", "cfg")' /\ ~IsSentinel(last'.v) /\ data' = last'.v)
        /\ (LastWas("set", "cfg")' /\ ~IsSentinel(last'.v)) => data' = last'.v
        /\ ~IsSentinel(data) => ~IsSentinel(data')
      ]_vars

\* C15 witness: set(Sentinel) on a Configuration holding data has returned,
\* and it holds data still.
C15_Witness ==
    /\ LastWas("set", "cfg") /\ IsSentinel(last.v) /\ ret = Ok(NoneV)
    /\ IsDict(data) /\ heap[data.v] # FreeSlot

\* C15 witness: a set(5) through a.b on a Configuration without data wrote into
\* the fallback dict, and the Configuration is without data still.
C15_WitnessItemSet ==
    /\ LastWas("set", "item") /\ last.v = IntV(5) /\ ret = Ok(NoneV)
    /\ IsSentinel(data) /\ IsDict(fallback)

\* What s.get() returns in the current state.
SGet == IF IsSentinel(override["s"]) THEN value["s"] ELSE override["s"]
\* What the last call of the wrapper bound to each parameter, defaults applied.
BoundOfCall ==
    ApplyDefaults(BindPartial(FilterArgs(cargs.args, wrapper.respect_none),
                              FilterKwargs(cargs.kwargs, wrapper.respect_none)).arguments)

\* C16: in a call of the wrapper that returns normally, h received for every
\* parameter bound to a Provider, by default or by the caller, what one get()
\* of that provider returned, also when that is a Provider itself, and for
\* every other parameter the value bound to it; get() was called once per
\* parameter bound to a Provider and no more.
C16_OneLayerResolution ==
    (LastWas("call", "h") /\ ret.exc = "") =>
        /\ \A name \in ParamNames :
              Received(fargs["h"], name) =
                 (IF IsProvider(BoundOfCall[name]) THEN SGet ELSE BoundOfCall[name])
        /\ got = [i \in 1..Cardinality({name \in ParamNames : IsProvider(BoundOfCall[name])})
                     |-> "s"]

\* C16 witness: s is overridden with a provider, and h(1) ran h with that
\* provider for y, after one s.get().
C16_Witness ==
    /\ LastWas("call", "h") /\ cargs = [args |-> <<IntV(1)>>, kwargs |-> NoKwargs]
    /\ override["s"] = ProvV("s") /\ ret.exc = "" /\ got = <<"s">>
    /\ fargs["h"].args = <<IntV(1), ProvV("s"), IntV(9)>>

\* C16 witness of a provider passed by the caller: h(1, y=s) ran h with the
\* value of s for y.
C16_WitnessExplicit ==
    /\ LastWas("call", "h")
    /\ cargs = [args |-> <<IntV(1)>>, kwargs |-> <<[name |-> "y", val |-> ProvV("s")]>>]
    /\ IsSentinel(override["s"]) /\ ret.exc = "" /\ got = <<"s">>
    /\ fargs["h"].args = <<IntV(1), IntV(7), IntV(9)>>

\* The value that the policy of the wrapper treats as absent, and the positional
\* arguments of the last call that are not that value.
PlaceholderOf == IF wrapper.respect_none THEN NoneV ELSE Sentinel
NotPlaceholder(x) == x # PlaceholderOf
\* The last call was positional only and gave a placeholder before a real value.
PlaceholderBeforeReal ==
    /\ LastWas("call", "h") /\ cargs.kwargs = NoKwargs
    /\ \E i, j \in 1..Len(cargs.args) :
          i < j /\ cargs.args[i] = PlaceholderOf /\ NotPlaceholder(cargs.args[j])

\* C17 as stated: in a positional call that gives a placeholder before real
\* values and returns normally, every real value reached h in the parameter at
\* whose position the caller gave it, and every parameter given the placeholder
\* received its default, a provider default resolved.
C17_PositionsPreserved ==
    (PlaceholderBeforeReal /\ ret.exc = "") =>
        \A i \in 1..Len(cargs.args) :
           Received(fargs["h"], Params[i]) =
              (IF NotPlaceholder(cargs.args[i]) THEN cargs.args[i]
               ELSE IF IsProvider(Defaults[Params[i]]) THEN SGet
               ELSE Defaults[Params[i]])

\* C17, what the wrapper does: in a positional call that returns normally, the
\* k-th argument that is not a placeholder reached h in the k-th parameter,
\* whatever the position the caller gave it at.
C17_FilteredBindInOrder ==
    (LastWas("call", "h") /\ cargs.kwargs = NoKwargs /\ ret.exc = "") =>
        LET real == SelectSeq(cargs.args, NotPlaceholder)
        IN \A k \in 1..Len(real) : Received(fargs["h"], Params[k]) = real[k]

\* C17 witness: under respect_none=False, h(1, not_passed, 1) ran h with y = 1
\* and z = 9, and without s.get().
C17_Witness ==
    /\ LastWas("call", "h") /\ wrapper.deco = "inject(respect_none=False)"
    /\ cargs = [args |-> <<IntV(1), Sentinel, IntV(1)>>, kwargs |-> NoKwargs]
    /\ ret.exc = "" /\ got = << >>
    /\ fargs["h"].args = <<IntV(1), IntV(1), IntV(9)>>

\* C18: a get() of the Callable c or the MemoizedCallable m that finds an
\* override on it returns the override, runs no function, calls get() on no
\* other provider and leaves the cache as it is; and when g has never run, the
\* get() of m that follows set(v); reset() on m is the first run of g.
C18_OverrideSkipsProvide ==
    [][ /\ (last'.op = "get" /\ last'.p \in {"c", "m"} /\ ~IsSentinel(override[last'.p])) =>
              /\ ret' = Ok(override[last'.p])
              /\ calls' = calls /\ cache' = cache /\ override' = override
              /\ fargs' = NoRuns /\ got' = <<last'.p>>
        /\ (LastWas("get", "m")' /\ prev' = "set;reset" /\ calls["g"] = 0) =>
              /\ calls'["g"] = 1 /\ fargs'["g"] # NoArgs
              /\ ret' = Ok(Res("g", 1)) /\ cache'["m"] = Res("g", 1)
      ]_vars

\* C18 witness: m is overridden with None before any get(); its get() returned
\* None, and neither g nor f has run.
C18_Witness ==
    /\ LastWas("get", "m") /\ prev = "set" /\ override["m"] = NoneV /\ ret = Ok(NoneV)
    /\ calls["g"] = 0 /\ calls["f"] = 0 /\ IsSentinel(cache["m"]) /\ got = <<"m">>

\* C18 witness of the second part: the get() of m after set(v); reset() ran g
\* for the first time.
C18_WitnessFirstRun ==
    /\ LastWas("get", "m") /\ prev = "set;reset" /\ calls["g"] = 1
    /\ fargs["g"] # NoArgs /\ ret = Ok(Res("g", 1)) /\ got = <<"m", "c", "s">>

\* C19: with threads of control calling get() of m concurrently, no thread
\* runs g more than once, whatever the others do, so that with a single thread
\* g runs once at most; g has run as many times as there are threads that have
\* run it; and a result is in the cache only when some thread has run g.
\* (That two threads both find the cache empty, run g twice and return different
\* results is C19_Witness.)
C19_OneRunPerThread ==
    /\ \A t \in Threads : threads[t].runs <= 1
    /\ calls["g"] = Cardinality({t \in Threads : threads[t].runs = 1})
    /\ \A t \in Threads :
          threads[t].pc \in {"store", "return"} =>
             (threads[t].runs = 1 /\ \E n \in 1..calls["g"] : threads[t].value = Res("g", n))
    /\ ~IsSentinel(cache["m"]) =>
          \E t \in Threads : threads[t].runs = 1 /\ threads[t].pc \notin {"call", "store"}

\* C19 witness: two threads have each run g, and their get() calls have
\* returned different results.
C19_Witness ==
    /\ threads[1].pc = "idle" /\ threads[2].pc = "idle"
    /\ calls["g"] = 2
    /\ threads[1].ret = Res("g", 1) /\ threads[2].ret = Res("g", 2)
    /\ cache["m"] = Res("g", 2)

\* C19 witness of the interleaving: both threads have found the cache empty,
\* and neither has stored a result.
C19_WitnessBothSawEmpty ==
    /\ threads[1].pc = "call" /\ threads[2].pc = "call" /\ IsSentinel(cache["m"])

====
